---- MODULE Spec2Model ----
(***************************************************************************)
(* Model of Document (src/src/document.rs): the in-memory packages with    *)
(* their dependency lists and toml_edit document trees, the name lookups,  *)
(* the in-place mutation of a Dependency and the write-back write_dep.     *)
(*                                                                         *)
(* Strings that the code inspects (versions, paths, feature names) are     *)
(* sequences of character codes; table keys and dependency names are only  *)
(* compared for equality and are TLA+ strings.  Indices are 0-based as in  *)
(* the source; sequences are 1-based, hence the +1 at every access.        *)
(*                                                                         *)
(* Dependency, Package and the construction of a Document are not part of  *)
(* document.rs; they are modelled after the specification of the data      *)
(* model.  Spec is a session of edits and writes through the              *)
(* index-addressed operations; SpecByName adds the name-addressed ones,    *)
(* which resolve a name to a position and then act alike.                  *)
(***************************************************************************)
EXTENDS Integers, Sequences, FiniteSets, TLC

VARIABLES
    packages,   \* Document.packages
    files,      \* the content of <dir_path>/Cargo.toml, per dir_path
    pc,         \* "running", or "panicked" once a call has panicked
    last,       \* the most recent call: its arguments and what it returned
    committed,  \* history: per dependency, the item its latest write_dep wrote
    fresh,      \* history: the dependency written last with no edit since
    mutations,  \* number of edits made
    writes      \* number of write calls made

vars == <<packages, files, pc, last, committed, fresh, mutations, writes>>

-----------------------------------------------------------------------------
(* Bounds *)

MaxPackages == 2
MaxDeps == 2
MaxMutations == 1
MaxWrites == 2

-----------------------------------------------------------------------------
(* Strings *)

EmptyStr == <<>>
Version1 == <<1>>
PathP == <<3>>
FeatAB == <<1, 2>>
FeatB == <<2>>

Versions == {EmptyStr, Version1}
FeatureNames == {FeatAB, FeatB}

\* Ord for str/String: byte-wise lexicographic comparison.
RECURSIVE StrLeq(_, _)
StrLeq(a, b) ==
    IF Len(a) = 0 THEN TRUE
    ELSE IF Len(b) = 0 THEN FALSE
    ELSE IF Head(a) < Head(b) THEN TRUE
    ELSE IF Head(a) > Head(b) THEN FALSE
    ELSE StrLeq(Tail(a), Tail(b))

\* Insertion of one string into an ascending sequence, after its equals.
RECURSIVE SortedInsert(_, _)
SortedInsert(sorted, x) ==
    IF Len(sorted) = 0 THEN <<x>>
    ELSE IF StrLeq(Head(sorted), x)
         THEN <<Head(sorted)>> \o SortedInsert(Tail(sorted), x)
         ELSE <<x>> \o sorted

\* Sort with the call left out: the features are left in the order they were returned in.
SortNone(v) == v

\* Vec<String>::sort(): stable ascending sort.
RECURSIVE Sort(_)
Sort(v) ==
    IF Len(v) = 0 THEN <<>>
    ELSE SortedInsert(Sort(SubSeq(v, 1, Len(v) - 1)), v[Len(v)])

\* str::split('.') over a key given as a sequence of name tokens and "."
RECURSIVE Split(_)
Split(s) ==
    IF \A k \in 1..Len(s) : s[k] # "." THEN <<s>>
    ELSE LET k == CHOOSE k \in 1..Len(s) :
                      s[k] = "." /\ \A m \in 1..(k - 1) : s[m] # "."
         IN  <<SubSeq(s, 1, k - 1)>> \o Split(SubSeq(s, k + 1, Len(s)))

\* A key segment is the concatenation of its tokens; the segments of the
\* modelled keys hold one token each.
SegmentKey(seg) == IF Len(seg) = 1 THEN seg[1] ELSE ""

-----------------------------------------------------------------------------
(* toml_edit items *)

None == [kind |-> "none"]
StringValue(s) == [kind |-> "str", s |-> s]
BooleanValue(b) == [kind |-> "bool", b |-> b]
ArrayValue(elems) == [kind |-> "arr", elems |-> elems]
InlineTableValue(entries) == [kind |-> "inline", entries |-> entries]
TableItem(entries) == [kind |-> "table", entries |-> entries]

KV(k, item) == [key |-> k, item |-> item]

HasKey(entries, k) == \E n \in 1..Len(entries) : entries[n].key = k

KeyPos(entries, k) == CHOOSE n \in 1..Len(entries) : entries[n].key = k

EntryOf(entries, k) ==
    IF HasKey(entries, k) THEN entries[KeyPos(entries, k)].item ELSE None

\* TableInsert as a plain push: the entry is appended, also when the key exists.
TableInsertAppend(entries, k, item) == Append(entries, KV(k, item))

\* Table::insert / InlineTable::insert: an existing key keeps its position
\* and gets the new item, a new key is appended.
TableInsert(entries, k, item) ==
    IF HasKey(entries, k)
    THEN [entries EXCEPT ![KeyPos(entries, k)] = KV(k, item)]
    ELSE Append(entries, KV(k, item))

\* Item::get_mut(key): the child of a table or inline table, None otherwise.
ItemGet(item, k) ==
    IF item.kind \in {"table", "inline"} THEN EntryOf(item.entries, k) ELSE None

\* Navigate with a created default: an absent segment is taken for an empty
\* table.
RECURSIVE NavigateLenient(_, _)
NavigateLenient(item, segs) ==
    IF Len(segs) = 0 THEN item
    ELSE LET child == ItemGet(item, SegmentKey(Head(segs)))
         IN  IF child = None THEN TableItem(<<>>)
             ELSE NavigateLenient(child, Tail(segs))

\* The loop over key.split('.'): None as soon as one segment is absent.
RECURSIVE Navigate(_, _)
Navigate(item, segs) ==
    IF Len(segs) = 0 THEN item
    ELSE LET child == ItemGet(item, SegmentKey(Head(segs)))
         IN  IF child = None THEN None ELSE Navigate(child, Tail(segs))

\* The effect on the tree of mutating, through the reference the loop ends
\* with, the table found at segs.
RECURSIVE ReplaceAt(_, _, _)
ReplaceAt(item, segs, new) ==
    IF Len(segs) = 0 THEN new
    ELSE LET k == SegmentKey(Head(segs))
         IN  [item EXCEPT !.entries =
                 TableInsert(item.entries, k,
                             ReplaceAt(EntryOf(item.entries, k), Tail(segs), new))]

\* Document::to_string(): the lines of the serialised tree, one per value,
\* each with the path of the table headers it stands under.
RECURSIVE ToLines(_, _)
RECURSIVE EntriesToLines(_, _, _)
ToLines(item, path) ==
    IF item.kind = "table"
    THEN <<[header |-> path]>> \o EntriesToLines(item.entries, path, 1)
    ELSE <<[at |-> path, value |-> item]>>

EntriesToLines(entries, path, n) ==
    IF n > Len(entries) THEN <<>>
    ELSE ToLines(entries[n].item, Append(path, entries[n].key))
         \o EntriesToLines(entries, path, n + 1)

DocToString(doc) == ToLines(doc, <<>>)

-----------------------------------------------------------------------------
(* Dependency *)

Remote == [kind |-> "Remote"]
Local(path) == [kind |-> "Local", path |-> path]
Origins == {Remote, Local(PathP)}

\* The orders in which get_features_to_enable() can return an enable-set.
EnableOrders ==
    {<<>>} \cup {<<f>> : f \in FeatureNames}
           \cup {<<f, g>> : <<f, g>> \in {ff \in FeatureNames \X FeatureNames : ff[1] # ff[2]}}

\* The logical states of a Dependency.
DependencyStates ==
    [version : Versions, origin : Origins, enable : EnableOrders, uses_default : BOOLEAN]

Dependency(dep_name, name, st) ==
    [dep_name |-> dep_name, name |-> name, version |-> st.version,
     origin |-> st.origin, enable |-> st.enable, uses_default |-> st.uses_default]

get_name(dep) == dep.name
get_version(dep) == dep.version
can_use_default(dep) == dep.uses_default
get_features_to_enable(dep) == dep.enable

-----------------------------------------------------------------------------
(* write_dep: the encoding of one dependency *)

\* UsesExpandedForm without its third disjunct: the origin is not looked at.
UsesExpandedFormNoOrigin(dep) ==
    \/ ~can_use_default(dep)
    \/ Len(get_features_to_enable(dep)) # 0

\* The condition of the if at the head of the encoding.
UsesExpandedForm(dep) ==
    \/ ~can_use_default(dep)
    \/ Len(get_features_to_enable(dep)) # 0
    \/ dep.origin # Remote

WithPath(entries, dep) ==
    IF dep.origin.kind = "Local"
    THEN TableInsert(entries, "path", StringValue(dep.origin.path))
    ELSE entries

WithVersion(entries, dep) ==
    IF Len(dep.version) # 0
    THEN TableInsert(entries, "version", StringValue(get_version(dep)))
    ELSE entries

FeaturesArray(dep) ==
    LET sorted == Sort(get_features_to_enable(dep))
    IN  [n \in 1..Len(sorted) |-> StringValue(sorted[n])]

WithFeatures(entries, dep) ==
    IF Len(FeaturesArray(dep)) # 0
    THEN TableInsert(entries, "features", ArrayValue(FeaturesArray(dep)))
    ELSE entries

\* WithDefaultFeatures without its test: the flag is written whatever its
\* value.
WithDefaultFeaturesAlways(entries, dep) ==
    TableInsert(entries, "default-features", BooleanValue(can_use_default(dep)))

WithDefaultFeatures(entries, dep) ==
    LET uses_default == can_use_default(dep)
    IN  IF ~uses_default
        THEN TableInsert(entries, "default-features", BooleanValue(uses_default))
        ELSE entries

ExpandedTable(dep) ==
    InlineTableValue(
        WithDefaultFeatures(WithFeatures(WithVersion(WithPath(<<>>, dep), dep), dep), dep))

\* The item write_dep inserts for dep.
EncodeDep(dep) ==
    IF UsesExpandedForm(dep) THEN ExpandedTable(dep)
    ELSE StringValue(get_version(dep))

-----------------------------------------------------------------------------
(* Package and Document construction *)

DependencyTypes == {"Normal", "Workspace"}

\* DependencyType::key(): the dotted key of the section.
DependencyTypeKey(dependency_type) ==
    IF dependency_type = "Workspace" THEN <<"workspace", ".", "dependencies">>
    ELSE <<"dependencies">>

\* The keys under which the dependencies of a section are declared, in
\* file order, and the crate a declared key can be an alias of.
DeclaredKeys == <<"a", "b", "c", "d">>
AliasedCrate == "b"
NameChars == [a |-> <<1>>, b |-> <<2>>, c |-> <<3>>, d |-> <<4>>]

ParsedState ==
    [version |-> Version1, origin |-> Remote, enable |-> <<>>, uses_default |-> TRUE]

\* The entry a dependency is parsed from: a bare version for a plain
\* dependency, else a table of its attributes as the author wrote them.
DeclaredEntry(dep) ==
    IF /\ dep.name = dep.dep_name
       /\ dep.origin = Remote
       /\ dep.uses_default
       /\ Len(dep.enable) = 0
    THEN StringValue(dep.version)
    ELSE InlineTableValue(
           (IF dep.name # dep.dep_name
            THEN <<KV("package", StringValue(NameChars[dep.name]))>> ELSE <<>>)
           \o (IF Len(dep.version) # 0
               THEN <<KV("version", StringValue(dep.version))>> ELSE <<>>)
           \o (IF dep.origin.kind = "Local"
               THEN <<KV("path", StringValue(dep.origin.path))>> ELSE <<>>)
           \o (IF ~dep.uses_default
               THEN <<KV("default-features", BooleanValue(FALSE))>> ELSE <<>>)
           \o (IF Len(dep.enable) # 0
               THEN <<KV("features",
                         ArrayValue([n \in 1..Len(dep.enable) |-> StringValue(dep.enable[n])]))>>
               ELSE <<>>))

\* The dependency lists a section can be parsed into: the first n declared
\* keys, each naming its own crate, but that the first can be an alias of
\* AliasedCrate.
DependencyLists ==
    UNION {{[k \in 1..n |-> Dependency(DeclaredKeys[k],
                                       IF k = 1 THEN first ELSE DeclaredKeys[k],
                                       ParsedState)] :
                first \in {DeclaredKeys[1], AliasedCrate}}
           : n \in 0..MaxDeps}

SectionTable(deps) ==
    TableItem([k \in 1..Len(deps) |-> KV(deps[k].dep_name, DeclaredEntry(deps[k]))])

PackageTable == TableItem(<<KV("name", StringValue(<<9>>))>>)

\* The tree of a manifest whose section holds deps; without the section
\* when has_section is FALSE.
ManifestTree(dependency_type, has_section, deps) ==
    IF dependency_type = "Workspace"
    THEN TableItem(<<KV("workspace",
             TableItem(<<KV("resolver", StringValue(<<2>>))>>
                       \o IF has_section
                          THEN <<KV("dependencies", SectionTable(deps))>> ELSE <<>>))>>)
    ELSE TableItem(<<KV("package", PackageTable)>>
                   \o (IF has_section
                       THEN <<KV("dependencies", SectionTable(deps))>> ELSE <<>>)
                   \o <<KV("features", TableItem(<<>>))>>)

Package(id, dependency_type, has_section, deps) ==
    [name |-> id, dir_path |-> id, dependency_type |-> dependency_type,
     toml_doc |-> ManifestTree(dependency_type, has_section, deps),
     dependencies |-> deps]

\* The packages a single-package manifest can give: the section present with
\* any of the dependency lists, or either section absent.
RootPackages ==
    {Package(0, "Normal", TRUE, deps) : deps \in DependencyLists}
    \cup {Package(0, t, FALSE, <<>>) : t \in DependencyTypes}

\* The packages of a workspace: the first with the workspace's section, the
\* others members, each with one plain dependency.
WorkspacePackage(id) ==
    Package(id, IF id = 0 THEN "Workspace" ELSE "Normal", TRUE,
            <<Dependency(DeclaredKeys[1], DeclaredKeys[1], ParsedState)>>)

\* A single package with one dependency in any logical state.
SinglePackages ==
    {Package(0, "Normal", TRUE, <<Dependency(DeclaredKeys[1], DeclaredKeys[1], st)>>) :
        st \in DependencyStates}

NoWrite == [package_id |-> -1, dep_index |-> -1, repeated |-> FALSE]

NoCall == [op |-> "new", package_id |-> 0, dep_index |-> 0, name |-> "",
           result |-> "Ok", ret |-> 0, io |-> "none"]

Init ==
    /\ \/ \E root \in RootPackages \cup SinglePackages : packages = <<root>>
       \/ \E n \in 2..MaxPackages : packages = [k \in 1..n |-> WorkspacePackage(k - 1)]
    /\ files = [id \in 0..(Len(packages) - 1) |-> DocToString(packages[id + 1].toml_doc)]
    /\ pc = "running"
    /\ last = NoCall
    /\ committed = [id \in 0..(Len(packages) - 1) |->
                       [k \in 1..Len(packages[id + 1].dependencies) |-> None]]
    /\ fresh = NoWrite
    /\ mutations = 0
    /\ writes = 0

-----------------------------------------------------------------------------
(* Document operations *)

\* The arguments of the calls.  Package ids come from the listing of the
\* packages; a dependency index can be one past the end of the list.
PackageIds == 0..(Len(packages) - 1)
DepIndexes(package_id) == 0..Len(packages[package_id + 1].dependencies)
LookupNames == {DeclaredKeys[k] : k \in 1..MaxDeps} \cup {AliasedCrate}

Call(op, package_id, dep_index, name) ==
    [op |-> op, package_id |-> package_id, dep_index |-> dep_index, name |-> name,
     result |-> "Ok", ret |-> dep_index, io |-> "none"]

\* Option::unwrap() on None, Result::unwrap() on Err: the thread panics.
Panic(call) ==
    /\ pc' = "panicked"
    /\ last' = [call EXCEPT !.result = "Panic"]

\* iter().find(|dep| dep.dep_name.eq(name)): position of the first match, -1
\* when there is none.
FindByDepName(deps, name) ==
    IF \E k \in 1..Len(deps) : deps[k].dep_name = name
    THEN (CHOOSE k \in 1..Len(deps) :
             /\ deps[k].dep_name = name
             /\ \A m \in 1..(k - 1) : deps[m].dep_name # name) - 1
    ELSE -1

\* iter().enumerate().find(|(_, dep)| dep.get_name() == name)
FindByName(deps, name) ==
    IF \E k \in 1..Len(deps) : get_name(deps[k]) = name
    THEN (CHOOSE k \in 1..Len(deps) :
             /\ get_name(deps[k]) = name
             /\ \A m \in 1..(k - 1) : get_name(deps[m]) # name) - 1
    ELSE -1

Found(call, index) ==
    IF index < 0 THEN [call EXCEPT !.result = "NotFound", !.ret = index]
    ELSE [call EXCEPT !.ret = index, !.dep_index = index]

get_dep(package_id, name) ==
    LET call == Call("get_dep", package_id, -1, name)
    IN  /\ pc = "running"
        /\ IF package_id >= Len(packages) THEN Panic(call)
           ELSE /\ last' = Found(call, FindByDepName(packages[package_id + 1].dependencies, name))
                /\ pc' = pc
        /\ UNCHANGED <<packages, files, committed, fresh, mutations, writes>>

get_dep_index(package_id, name) ==
    LET call == Call("get_dep_index", package_id, -1, name)
    IN  /\ pc = "running"
        /\ IF package_id >= Len(packages) THEN Panic(call)
           ELSE /\ last' = Found(call, FindByName(packages[package_id + 1].dependencies, name))
                /\ pc' = pc
        /\ UNCHANGED <<packages, files, committed, fresh, mutations, writes>>

\* The edits a caller makes through a &mut Dependency: one attribute of the
\* logical state is given a value.
Edits ==
    {[field |-> "version", version |-> v] : v \in Versions}
    \cup {[field |-> "origin", origin |-> o] : o \in Origins}
    \cup {[field |-> "enable", enable |-> e] : e \in {<<>>, <<FeatB, FeatAB>>}}
    \cup {[field |-> "uses_default", uses_default |-> b] : b \in BOOLEAN}

SetState(dep, edit) == [dep EXCEPT ![edit.field] = edit[edit.field]]

\* get_dep_mut and the caller's edit through the handle it returns.
get_dep_mut(package_id, name, st) ==
    LET call == Call("get_dep_mut", package_id, -1, name)
    IN  /\ pc = "running"
        /\ mutations < MaxMutations
        /\ mutations' = mutations + 1
        /\ IF package_id >= Len(packages)
           THEN Panic(call) /\ UNCHANGED <<packages, fresh>>
           ELSE LET index == FindByDepName(packages[package_id + 1].dependencies, name)
                IN  /\ last' = Found(call, index)
                    /\ pc' = pc
                    /\ packages' =
                         IF index < 0 THEN packages
                         ELSE [packages EXCEPT ![package_id + 1].dependencies[index + 1] =
                                                   SetState(@, st)]
                    /\ fresh' = IF index < 0 THEN fresh ELSE NoWrite
        /\ UNCHANGED <<files, committed, writes>>

\* get_deps_mut and the caller's edit of the element at dep_index.
get_deps_mut(package_id, dep_index, st) ==
    LET call == Call("get_deps_mut", package_id, dep_index, "")
    IN  /\ pc = "running"
        /\ mutations < MaxMutations
        /\ mutations' = mutations + 1
        /\ IF package_id >= Len(packages)
           THEN Panic(call) /\ UNCHANGED <<packages, fresh>>
           ELSE /\ dep_index < Len(packages[package_id + 1].dependencies)
                /\ last' = call
                /\ pc' = pc
                /\ packages' = [packages EXCEPT ![package_id + 1].dependencies[dep_index + 1] =
                                                   SetState(@, st)]
                /\ fresh' = NoWrite
        /\ UNCHANGED <<files, committed, writes>>

\* What fs::write can leave in the file when it fails: the old content (the
\* file could not be opened), or the file truncated and then holding none
\* of the new text or all of it but the end.
FailedWriteContents(old, text) ==
    {old} \cup {SubSeq(text, 1, n) : n \in {0, Len(text) - 1}}

\* The body of write_dep, for the call record of the caller.
WriteDepBody(call, package_id, dep_index) ==
    IF package_id >= Len(packages)
    THEN Panic(call) /\ UNCHANGED <<packages, files, committed, fresh>>
    ELSE
      LET package == packages[package_id + 1]
          segs == Split(DependencyTypeKey(package.dependency_type))
          deps == Navigate(package.toml_doc, segs)
      IN  IF deps = None
          THEN /\ last' = [call EXCEPT !.result = "SectionNotFound"]
               /\ UNCHANGED <<packages, files, pc, committed, fresh>>
          ELSE IF deps.kind # "table" \/ dep_index >= Len(package.dependencies)
          THEN Panic(call) /\ UNCHANGED <<packages, files, committed, fresh>>
          ELSE
            LET dependency == package.dependencies[dep_index + 1]
                item == EncodeDep(dependency)
                table == [deps EXCEPT !.entries =
                             TableInsert(deps.entries, get_name(dependency), item)]
                doc == ReplaceAt(package.toml_doc, segs, table)
                text == DocToString(doc)
            IN  /\ packages' = [packages EXCEPT ![package_id + 1].toml_doc = doc]
                /\ \/ /\ files' = [files EXCEPT ![package.dir_path] = text]
                      /\ committed' = [committed EXCEPT ![package_id][dep_index + 1] = item]
                      /\ fresh' = [package_id |-> package_id, dep_index |-> dep_index,
                                   repeated |-> /\ fresh.package_id = package_id
                                                /\ fresh.dep_index = dep_index]
                      /\ last' = [call EXCEPT !.io = "ok"]
                      /\ pc' = pc
                   \/ /\ \E content \in FailedWriteContents(files[package.dir_path], text) :
                            files' = [files EXCEPT ![package.dir_path] = content]
                      /\ Panic([call EXCEPT !.io = "failed"])
                      /\ UNCHANGED <<committed, fresh>>

write_dep(package_id, dep_index) ==
    /\ pc = "running"
    /\ writes < MaxWrites
    /\ writes' = writes + 1
    /\ WriteDepBody(Call("write_dep", package_id, dep_index, ""), package_id, dep_index)
    /\ UNCHANGED mutations

write_dep_by_name(package_id, name) ==
    LET call == Call("write_dep_by_name", package_id, -1, name)
    IN  /\ pc = "running"
        /\ writes < MaxWrites
        /\ writes' = writes + 1
        /\ IF package_id >= Len(packages)
           THEN Panic(call) /\ UNCHANGED <<packages, files, committed, fresh>>
           ELSE LET index == FindByName(packages[package_id + 1].dependencies, name)
                IN  IF index < 0
                    THEN /\ last' = Found(call, index)
                         /\ UNCHANGED <<packages, files, pc, committed, fresh>>
                    ELSE WriteDepBody(Found(call, index), package_id, index)
        /\ UNCHANGED mutations

\* An editing session through the index-addressed operations.
Next ==
    \/ \E package_id \in PackageIds, st \in Edits :
          \E dep_index \in DepIndexes(package_id) : get_deps_mut(package_id, dep_index, st)
    \/ \E package_id \in PackageIds :
          \E dep_index \in DepIndexes(package_id) : write_dep(package_id, dep_index)

Spec == Init /\ [][Next]_vars

\* An editing session through all the operations, the name-addressed too.
NextByName ==
    \/ \E package_id \in PackageIds, name \in LookupNames : get_dep(package_id, name)
    \/ \E package_id \in PackageIds, name \in LookupNames : get_dep_index(package_id, name)
    \/ \E package_id \in PackageIds, name \in LookupNames, st \in Edits :
          get_dep_mut(package_id, name, st)
    \/ \E package_id \in PackageIds, st \in Edits :
          \E dep_index \in DepIndexes(package_id) : get_deps_mut(package_id, dep_index, st)
    \/ \E package_id \in PackageIds :
          \E dep_index \in DepIndexes(package_id) : write_dep(package_id, dep_index)
    \/ \E package_id \in PackageIds, name \in LookupNames : write_dep_by_name(package_id, name)

SpecByName == Init /\ [][NextByName]_vars

-----------------------------------------------------------------------------
(* Properties *)

IsWrite(call) == call.op \in {"write_dep", "write_dep_by_name"}

\* The last call was a write_dep that returned Ok.
Wrote == IsWrite(last) /\ last.result = "Ok"

WrittenPackage == packages[last.package_id + 1]
WrittenDep == WrittenPackage.dependencies[last.dep_index + 1]

\* The path of table keys to a package's section.
SectionPath(package) ==
    IF package.dependency_type = "Workspace" THEN <<"workspace", "dependencies">>
    ELSE <<"dependencies">>

RECURSIVE ItemAt(_, _)
ItemAt(item, path) ==
    IF Len(path) = 0 THEN item
    ELSE IF item.kind = "table" /\ HasKey(item.entries, Head(path))
         THEN ItemAt(EntryOf(item.entries, Head(path)), Tail(path))
         ELSE None

SectionAbsent(package) == ItemAt(package.toml_doc, SectionPath(package)) = None
SectionEntries(package) == ItemAt(package.toml_doc, SectionPath(package)).entries

Keys(entries) == [n \in 1..Len(entries) |-> entries[n].key]
KeySet(entries) == {entries[n].key : n \in 1..Len(entries)}

\* The entry the last write_dep wrote.
WrittenEntry == EntryOf(SectionEntries(WrittenPackage), WrittenDep.name)

\* C1: write_dep writes an expanded table iff the dependency does not use
\* default features, or has features to enable, or is not Remote; otherwise
\* it writes the bare string of the dependency's version.
C1_EncodingShape ==
    Wrote =>
        IF \/ ~WrittenDep.uses_default
           \/ Len(WrittenDep.enable) > 0
           \/ WrittenDep.origin.kind # "Remote"
        THEN WrittenEntry.kind = "inline"
        ELSE WrittenEntry = [kind |-> "str", s |-> WrittenDep.version]

\* A Local dependency with empty version and default features was written
\* in expanded form.
C1_LocalWritten ==
    /\ Wrote
    /\ WrittenDep.origin.kind = "Local"
    /\ Len(WrittenDep.version) = 0
    /\ WrittenDep.uses_default
    /\ Len(WrittenDep.enable) = 0
    /\ WrittenEntry.kind = "inline"

ExpectedKeys(dep) ==
    (IF dep.origin.kind = "Local" THEN <<"path">> ELSE <<>>)
    \o (IF Len(dep.version) > 0 THEN <<"version">> ELSE <<>>)
    \o (IF Len(dep.enable) > 0 THEN <<"features">> ELSE <<>>)
    \o (IF ~dep.uses_default THEN <<"default-features">> ELSE <<>>)

\* C2: an expanded table holds exactly, and in this order: path iff the
\* origin is Local (with that path), version iff the version is non-empty,
\* features iff there are features to enable, default-features iff default
\* features are not used, and then with the value false.
C2_ExpandedFields ==
    (Wrote /\ WrittenEntry.kind = "inline") =>
        LET fields == WrittenEntry.entries
        IN  /\ Keys(fields) = ExpectedKeys(WrittenDep)
            /\ WrittenDep.origin.kind = "Local" =>
                 EntryOf(fields, "path") = [kind |-> "str", s |-> WrittenDep.origin.path]
            /\ Len(WrittenDep.version) > 0 =>
                 EntryOf(fields, "version") = [kind |-> "str", s |-> WrittenDep.version]
            /\ Len(WrittenDep.enable) > 0 => EntryOf(fields, "features").kind = "arr"
            /\ ~WrittenDep.uses_default =>
                 EntryOf(fields, "default-features") = [kind |-> "bool", b |-> FALSE]

\* A table with all four fields was written.
C2_AllFieldsWritten ==
    /\ Wrote
    /\ WrittenEntry.kind = "inline"
    /\ Keys(WrittenEntry.entries) = <<"path", "version", "features", "default-features">>

\* x sorts strictly before y in lexicographic order.
LexLess(x, y) ==
    \E k \in 1..(Len(x) + 1) :
        /\ \A m \in 1..(k - 1) : m <= Len(y) /\ x[m] = y[m]
        /\ \/ k = Len(x) + 1 /\ Len(y) >= k
           \/ k <= Len(x) /\ k <= Len(y) /\ x[k] < y[k]

SameSet(v, w) == {v[n] : n \in 1..Len(v)} = {w[n] : n \in 1..Len(w)}

\* C3: the features array lists the features to enable in ascending
\* lexicographic order, and a dependency with the same features in another
\* internal order gets the same entry.
C3_FeaturesSorted ==
    (Wrote /\ Len(WrittenDep.enable) > 0) =>
        LET elems == EntryOf(WrittenEntry.entries, "features").elems
            names == [n \in 1..Len(elems) |-> elems[n].s]
        IN  /\ Len(names) = Len(WrittenDep.enable)
            /\ SameSet(names, WrittenDep.enable)
            /\ \A n \in 1..(Len(names) - 1) : LexLess(names[n], names[n + 1])
            /\ \A order \in EnableOrders :
                  (Len(order) = Len(WrittenDep.enable) /\ SameSet(order, WrittenDep.enable))
                  => EncodeDep([WrittenDep EXCEPT !.enable = order]) = WrittenEntry

\* Features returned in descending order were written in ascending order.
C3_UnorderedWritten ==
    /\ Wrote
    /\ WrittenDep.enable = <<FeatB, FeatAB>>
    /\ EntryOf(WrittenEntry.entries, "features").elems
         = <<[kind |-> "str", s |-> FeatAB], [kind |-> "str", s |-> FeatB]>>

\* C4: a write_dep of the dependency that was written last, with no edit
\* made since, leaves the document trees and the files as they were.
C4_WriteIdempotent ==
    [][(/\ fresh # NoWrite
        /\ IsWrite(last') /\ last'.result = "Ok" /\ writes' # writes
        /\ last'.package_id = fresh.package_id
        /\ last'.dep_index = fresh.dep_index)
       => (packages' = packages /\ files' = files)]_vars

\* The same dependency was written twice in succession.
C4_WrittenTwice == Wrote /\ fresh.repeated

\* C7: write_dep on a package whose tree lacks a segment of the section key
\* returns SectionNotFound, writes no file and inserts no entry.
C7_SectionNotFound ==
    [][(/\ last'.op = "write_dep" /\ writes' # writes
        /\ SectionAbsent(packages[last'.package_id + 1]))
       => (/\ last'.result = "SectionNotFound"
           /\ pc' = "running"
           /\ packages' = packages
           /\ files' = files)]_vars

\* write_dep was called on a package without its section.
C7_SectionMissing ==
    /\ last.op = "write_dep"
    /\ last.result = "SectionNotFound"
    /\ SectionAbsent(packages[last.package_id + 1])
    /\ files[packages[last.package_id + 1].dir_path]
         = DocToString(packages[last.package_id + 1].toml_doc)

\* The tree with the entries of the table at path taken out.
RECURSIVE WithoutSection(_, _)
WithoutSection(item, path) ==
    IF Len(path) = 0 THEN TableItem(<<>>)
    ELSE [item EXCEPT !.entries =
             [n \in 1..Len(item.entries) |->
                 IF item.entries[n].key = Head(path)
                 THEN KV(Head(path), WithoutSection(item.entries[n].item, Tail(path)))
                 ELSE item.entries[n]]]

\* What changed between the packages and files before a write_dep of the
\* dependency at dep_index of package_id and those after it is at most the
\* entry under the key the dependency is declared by.
OnlyEntryChanged(before, after, files_before, files_after, package_id, dep_index) ==
    LET old == before[package_id + 1]
        new == after[package_id + 1]
        key == old.dependencies[dep_index + 1].dep_name
        was == SectionEntries(old)
        is == SectionEntries(new)
    IN  /\ Len(is) = Len(was)
        /\ \A n \in 1..Len(was) :
              /\ is[n].key = was[n].key
              /\ was[n].key # key => is[n] = was[n]
        /\ WithoutSection(new.toml_doc, SectionPath(new))
             = WithoutSection(old.toml_doc, SectionPath(old))
        /\ \A k \in 1..Len(before) :
              /\ k # package_id + 1 => after[k] = before[k]
              /\ after[k].dependencies = before[k].dependencies
              /\ before[k].dir_path # old.dir_path =>
                   files_after[before[k].dir_path] = files_before[before[k].dir_path]

\* C5: write_dep changes only the entry of the written dependency: the
\* other entries of the section (key, value, position), the rest of the
\* package's tree, the other packages and their files and all Dependency
\* values stay as they were.
C5_OnlyWrittenEntryChanges ==
    [][(IsWrite(last') /\ last'.result = "Ok" /\ writes' # writes)
       => OnlyEntryChanged(packages, packages', files, files',
                           last'.package_id, last'.dep_index)]_vars

\* C6: when the file write fails, write_dep returns an I/O error to its
\* caller and the program goes on, so that the call can be made again.
C6_WriteFailureReturned ==
    (IsWrite(last) /\ last.io = "failed") => (last.result = "IoError" /\ pc = "running")

\* C8: the name-based operations make the same search: get_dep_index and
\* write_dep_by_name find a name at the position at which get_dep and
\* get_dep_mut find it, and all fail for the same names.
C8_SameSearch ==
    \A package_id \in PackageIds, name \in LookupNames :
        FindByName(packages[package_id + 1].dependencies, name)
          = FindByDepName(packages[package_id + 1].dependencies, name)

\* C9: write_dep replaces the entry under the key the dependency is declared
\* by: the section has the same set of keys after the call as before it.
C9_KeysPreserved ==
    [][(IsWrite(last') /\ last'.result = "Ok" /\ writes' # writes)
       => KeySet(SectionEntries(packages'[last'.package_id + 1]))
            = KeySet(SectionEntries(packages[last'.package_id + 1]))]_vars

\* The value the text of a manifest gives at a path of keys, None if none.
FileEntry(content, at) ==
    IF \E n \in 1..Len(content) : "at" \in DOMAIN content[n] /\ content[n].at = at
    THEN content[CHOOSE n \in 1..Len(content) :
                    "at" \in DOMAIN content[n] /\ content[n].at = at].value
    ELSE None

\* In the files, every dependency written so far has the item its latest
\* write_dep wrote, and every other dependency the entry it had in before.
WritesKept(pkgs, before, after, history) ==
    \A k \in 1..Len(pkgs) : \A i \in 1..Len(pkgs[k].dependencies) :
        LET dep == pkgs[k].dependencies[i]
            dir == pkgs[k].dir_path
        IN  IF history[k - 1][i] # None
            THEN FileEntry(after[dir], Append(SectionPath(pkgs[k]), dep.name))
                   = history[k - 1][i]
            ELSE FileEntry(after[dir], Append(SectionPath(pkgs[k]), dep.dep_name))
                   = FileEntry(before[dir], Append(SectionPath(pkgs[k]), dep.dep_name))

\* C10: a file changes only in a write_dep of a package located at it; and
\* after each successful write_dep the file holds what the latest write_dep
\* of every written dependency produced, while the dependencies never
\* written keep their entry.
C10_WritesPersist ==
    [][/\ \A dir \in DOMAIN files :
             files'[dir] # files[dir] =>
                 /\ IsWrite(last') /\ writes' # writes
                 /\ packages[last'.package_id + 1].dir_path = dir
       /\ (IsWrite(last') /\ last'.result = "Ok" /\ writes' # writes)
             => WritesKept(packages, files, files', committed')]_vars

====
